---- MODULE Spec2Model ----
(***************************************************************************)
(* Artifact resolution of arxiv_dissemination.services.article_store:      *)
(* ArticleStore over an object store with three tiers (ps_cache, ftp =     *)
(* current, orig = archive), for one article identifier.                   *)
(***************************************************************************)
EXTENDS Integers, Sequences, FiniteSets, TLC

\* ------------------------------------------------------------------ bounds
MaxVer == 3        \* highest version number in identifiers and object names
MaxObjects == 2    \* most objects an initial store holds
MaxDates == 2      \* most Date lines of the current descriptor
MaxFlags == 2      \* most characters of a source flag
MaxPrefs == 2      \* most tokens of a format preference
MaxExtParts == 3   \* most dot-separated parts of a source file name

\* ---------------------------------------------------------------- constants
ListCap == 1000    \* the defensive cap of _source_exists

\* ------------------------------------------------------------- identifiers
\* arxiv.identifier.Identifier: has_version, version (None is NoVersion).
NoVersion == 0

NoVersionId == [has_version |-> FALSE, version |-> NoVersion]

VersionedId(v) == [has_version |-> TRUE, version |-> v]

Ids == {NoVersionId} \cup {VersionedId(v) : v \in 1..MaxVer}

\* ------------------------------------------------------------------ objects
\* An object key is tier/.../<filename>[v<ver>].<ext>; ver = NoSuffix when the
\* name carries no vN suffix; ext is the sequence of dot-separated parts.
NoSuffix == 0

AbsExt == <<"abs">>
PdfExt == <<"pdf">>
TarGzExt == <<"tar", "gz">>

Obj(t, v, e) == [tier |-> t, format |-> "", ver |-> v, ext |-> e]

\* A cache-tier key also carries the format: ps_cache/<format>/...
CacheObj(f, v, e) == [tier |-> "ps_cache", format |-> f, ver |-> v, ext |-> e]

NoObj == Obj("none", NoSuffix, <<>>)

\* Key patterns (key_patterns.py).
abs_path_current_parent == "ftp"

abs_path_orig_parent == "orig"

abs_path_current == Obj(abs_path_current_parent, NoSuffix, AbsExt)

abs_path_orig(id, version) == Obj(abs_path_orig_parent, version, AbsExt)

ps_cache_pdf_path(format, id, version) ==
    CacheObj(format, IF version # 0 THEN version ELSE id.version, PdfExt)

current_pdf_path == Obj("ftp", NoSuffix, PdfExt)

previous_pdf_path(id) == Obj("orig", id.version, PdfExt)

\* Object store (object_store.py): exists and list-by-prefix.  The prefix
\* <parent>/<filename> matches every object of the identifier in that tier.
Exists(store, o) == o \in store

List(store, parent) == {o \in store : o.tier = parent}

\* Every object the bounded store may hold.
Universe ==
    {Obj("orig", v, e) : v \in 1..MaxVer, e \in {AbsExt, PdfExt, TarGzExt}}
    \cup {Obj("orig", NoSuffix, AbsExt)}
    \cup {Obj("ftp", NoSuffix, e) : e \in {AbsExt, PdfExt, TarGzExt}}
    \cup {CacheObj("pdf", v, PdfExt) : v \in 1..MaxVer}

\* ------------------------------------------------------------------ results
\* A call's outcome: an object handle, a condition string, a raised error, a
\* number, a boolean, a string or None, with the store probes it made in order.
Blank == [kind |-> "none", obj |-> NoObj, cond |-> "", num |-> 0,
          flag |-> FALSE, entries |-> <<>>, probes |-> <<>>]

Handle(o, p) == [Blank EXCEPT !.kind = "handle", !.obj = o, !.probes = p]

Cond(c, p) == [Blank EXCEPT !.kind = "cond", !.cond = c, !.probes = p]

Raise(e, p) == [Blank EXCEPT !.kind = "raise", !.cond = e, !.probes = p]

Num(n, p) == [Blank EXCEPT !.kind = "num", !.num = n, !.probes = p]

Bool(b, p) == [Blank EXCEPT !.kind = "bool", !.flag = b, !.probes = p]

Str(s, p) == [Blank EXCEPT !.kind = "str", !.cond = s, !.probes = p]

Parsed(n, l) == [Blank EXCEPT !.kind = "parsed", !.num = n, !.entries = l]

None(p) == [Blank EXCEPT !.probes = p]

Probe(op, o) == [op |-> op, obj |-> o]

ListProbe(parent) == Probe("list", Obj(parent, NoSuffix, <<>>))

\* ---------------------------------------------------------- current_version
Max(S) == CHOOSE x \in S : \A y \in S : y <= x

\* v_regex = '.*v(\d+)': the number of the vN suffix of the name, else 0.
path_to_version(o) == IF o.ver # NoSuffix THEN o.ver ELSE 0

\* current_version with the '+ 1' of line 70 dropped.
current_version_no_increment(store) ==
    LET abs_versions == List(store, abs_path_orig_parent)
        p1 == <<ListProbe(abs_path_orig_parent)>>
        p2 == Append(p1, Probe("exists", abs_path_current))
    IN  IF abs_versions # {}
        THEN Num(Max({path_to_version(o) : o \in abs_versions}), p1)
        ELSE IF Exists(store, abs_path_current)
             THEN Num(1, p2)
             ELSE None(p2)

current_version(store) ==
    LET abs_versions == List(store, abs_path_orig_parent)
        p1 == <<ListProbe(abs_path_orig_parent)>>
        p2 == Append(p1, Probe("exists", abs_path_current))
    IN  IF abs_versions # {}
        THEN Num(Max({path_to_version(o) : o \in abs_versions}) + 1, p1)
        ELSE IF Exists(store, abs_path_current)
             THEN Num(1, p2)
             ELSE None(p2)

\* --------------------------------------------------------------- abs_for_id
\* first_version looking at the version argument alone.
first_version_argument_only(id, version) == version # 0 /\ version = 1

\* Line 80.
first_version(id, version) ==
    (version # 0 /\ version = 1) \/ id.version = 1

\* abs_for_id returning the retried archive descriptor without the exists()
\* check of line 96.
abs_for_id_retry_unchecked(store, id, version, current) ==
    IF current # 0 \/ ~id.has_version \/ first_version(id, version)
    THEN LET abs == abs_path_current
             p == <<Probe("exists", abs)>>
         IN  IF Exists(store, abs) THEN Handle(abs, p)
             ELSE Cond("ARTICLE_NOT_FOUND", p)
    ELSE LET v == IF version # 0 THEN version ELSE id.version
             abs1 == abs_path_orig(id, v)
             p1 == <<Probe("exists", abs1)>>
             abs2 == abs_path_orig(id, id.version - 1)
             p2 == Append(p1, Probe("exists", abs2))
         IN  IF Exists(store, abs1) THEN Handle(abs1, p1)
             ELSE Handle(abs2, p2)

abs_for_id(store, id, version, current) ==
    IF current # 0 \/ ~id.has_version \/ first_version(id, version)
    THEN LET abs == abs_path_current
             p == <<Probe("exists", abs)>>
         IN  IF Exists(store, abs) THEN Handle(abs, p)
             ELSE Cond("ARTICLE_NOT_FOUND", p)
    ELSE LET v == IF version # 0 THEN version ELSE id.version
             abs1 == abs_path_orig(id, v)
             p1 == <<Probe("exists", abs1)>>
             abs2 == abs_path_orig(id, id.version - 1)
             p2 == Append(p1, Probe("exists", abs2))
         IN  IF Exists(store, abs1) THEN Handle(abs1, p1)
             ELSE IF Exists(store, abs2) THEN Handle(abs2, p2)
             ELSE Cond("VERSION_NOT_FOUND", p2)

\* --------------------------------------------------------------- descriptor
\* A descriptor is its sequence of lines.  A line is the '\\' marker, a line
\* starting with 'Date', or any other line.  For a Date line: match says
\* whether RE_DATE_COMPONENTS matches it, date_ok whether dateutil parses the
\* captured date, has_size whether the optional '(<digits>kb,<source_type>)'
\* group took part in the match, source_type the text that group captured.
Marker == [kind |-> "marker", match |-> FALSE, date_ok |-> FALSE,
           has_size |-> FALSE, source_type |-> ""]

Other == [kind |-> "other", match |-> FALSE, date_ok |-> FALSE,
          has_size |-> FALSE, source_type |-> ""]

DateLine(m, d, z, t) == [kind |-> "date", match |-> m, date_ok |-> d,
                         has_size |-> z, source_type |-> t]

\* 'Date: <date> (12kb)', 'Date: <date> (12kb,I)' and 'Date: <date>'.
WellFormedDates ==
    {DateLine(TRUE, TRUE, TRUE, ""), DateLine(TRUE, TRUE, TRUE, "I"),
     DateLine(TRUE, TRUE, FALSE, "")}

\* Lines 185-200 of _source_type: the Date lines between the first marker
\* and the next one.
RECURSIVE ScanLines(_, _, _, _)
ScanLines(lines, i, in_data, datelines) ==
    IF i > Len(lines) THEN datelines
    ELSE IF ~in_data
         THEN ScanLines(lines, i + 1, lines[i].kind = "marker", datelines)
         ELSE LET acc == IF lines[i].kind = "date"
                         THEN Append(datelines, lines[i]) ELSE datelines
              IN  IF lines[i].kind = "marker" THEN acc
                  ELSE ScanLines(lines, i + 1, TRUE, acc)

\* One pass of the loop of _parse_version_entries: "" when the line yields a
\* version entry, else the error raised.
ParseError(line) ==
    IF ~line.match THEN "Could not extract date components from date line."
    ELSE IF ~line.date_ok THEN "Could not parse submitted date as datetime"
    ELSE IF ~line.has_size THEN "TypeError"   \* int(None)
    ELSE ""

RECURSIVE ParseFrom(_, _, _)
ParseFrom(version_entry_list, version_count, version_entries) ==
    IF version_count = Len(version_entry_list)
    THEN [error |-> "", count |-> version_count, versions |-> version_entries]
    ELSE LET line == version_entry_list[version_count + 1]
             err == ParseError(line)
             ve == [source_type |-> line.source_type,
                    version |-> version_count + 1]
         IN  IF err # ""
             THEN [error |-> err, count |-> 0, versions |-> <<>>]
             ELSE ParseFrom(version_entry_list, version_count + 1,
                            Append(version_entries, ve))

parse_version_entries(version_entry_list) ==
    ParseFrom(version_entry_list, 0, <<>>)

\* _source_type indexing from 0 where the records are counted from 1
\* (versions[arxiv_id.version] for versions[arxiv_id.version-1], line 206).
source_type_next_record(store, descriptor, id) ==
    LET abs_key == abs_path_current
        p == <<Probe("open", abs_key)>>
        parsed == parse_version_entries(ScanLines(descriptor, 1, FALSE, <<>>))
        versions == parsed.versions
    IN  IF ~Exists(store, abs_key) THEN Raise("FileNotFoundError", p)
        ELSE IF parsed.error # "" THEN Raise(parsed.error, p)
        ELSE IF id.has_version
             THEN IF Len(versions) < id.version THEN Str("", p)
                  ELSE IF id.version = Len(versions) THEN Raise("IndexError", p)
                  ELSE Str(versions[id.version + 1].source_type, p)
             ELSE IF versions = <<>> THEN Raise("IndexError", p)
                  ELSE Str(versions[Len(versions)].source_type, p)

source_type(store, descriptor, id) ==
    LET abs_key == abs_path_current
        p == <<Probe("open", abs_key)>>
        parsed == parse_version_entries(ScanLines(descriptor, 1, FALSE, <<>>))
        versions == parsed.versions
    IN  IF ~Exists(store, abs_key) THEN Raise("FileNotFoundError", p)
        ELSE IF parsed.error # "" THEN Raise(parsed.error, p)
        ELSE IF id.has_version
             THEN IF Len(versions) < id.version THEN Str("", p)
                  ELSE Str(versions[id.version].source_type, p)
             ELSE IF versions = <<>> THEN Raise("IndexError", p)
                  ELSE Str(versions[Len(versions)].source_type, p)

\* is_withdrawn comparing with the lower-case letter.
is_withdrawn_lower_case(store, descriptor, id) ==
    LET st == source_type(store, descriptor, id)
    IN  IF st.kind = "raise" THEN st ELSE Bool(st.cond = "i", st.probes)

is_withdrawn(store, descriptor, id) ==
    LET st == source_type(store, descriptor, id)
    IN  IF st.kind = "raise" THEN st ELSE Bool(st.cond = "I", st.probes)

\* ------------------------------------------------------------ source exists
\* The extensions a source file may have (lines 34-41).
VALID_SOURCE_EXTENSIONS ==
    {<<"tar", "gz">>, <<"pdf">>, <<"ps", "gz">>, <<"gz">>, <<"dvi", "gz">>,
     <<"html", "gz">>}

\* src_regex.match: '.*' then one of the alternatives, anywhere in the name.
SrcAlternatives ==
    {<<"tar", "gz">>, <<"pdf">>, <<"ps", "gz">>, <<"gz">>, <<"div", "gz">>,
     <<"html", "gz">>}

src_regex(o) ==
    \E i \in 1..Len(o.ext) : \E j \in i..Len(o.ext) :
        SubSeq(o.ext, i, j) \in SrcAlternatives

versioned_or_current(store, id) ==
    LET current_ver == current_version(store)
    IN  IF current_ver.kind = "none" THEN current_ver
        ELSE IF id.has_version
             THEN [current_ver EXCEPT !.num = id.version,
                                      !.flag = (id.version = current_ver.num)]
             ELSE [current_ver EXCEPT !.flag = TRUE]

source_exists(store, id) ==
    LET res == versioned_or_current(store, id)
        parent == IF res.flag THEN abs_path_current_parent
                  ELSE abs_path_orig_parent
        items == List(store, parent)
        p == Append(res.probes, ListProbe(parent))
    IN  IF res.kind = "none" THEN Bool(FALSE, res.probes)
        ELSE IF Cardinality(items) > ListCap THEN Bool(TRUE, p)
        ELSE Bool(\E item \in items : src_regex(item), p)

\* ------------------------------------------------------------ dissemination
Formats == {"pdf", "ps"}

\* version_above off by one: the version right above the current one passes.
version_above_off_by_one(id, cur_version) == id.version > cur_version + 1

\* Line 121: the requested version is above the current one.
version_above(id, cur_version) == id.version > cur_version

\* after_probes with the two entry points unified on WITHDRAWN.
after_probes_unified(store, descriptor, id, no_source, p) ==
    LET w == is_withdrawn(store, descriptor, id)
        pw == p \o w.probes
        se == source_exists(store, id)
        ps == pw \o se.probes
    IN  IF w.kind = "raise" THEN Raise(w.cond, pw)
        ELSE IF w.flag THEN Cond("WITHDRAWN", pw)
        ELSE IF ~se.flag THEN Cond("WITHDRAWN", ps)
        ELSE Cond("UNAVAIABLE", ps)

\* Lines 128-135 and 156-163: the outcome once every rendition probe missed;
\* no_source is the condition reported when no source file is listed.
after_probes(store, descriptor, id, no_source, p) ==
    LET w == is_withdrawn(store, descriptor, id)
        pw == p \o w.probes
        se == source_exists(store, id)
        ps == pw \o se.probes
    IN  IF w.kind = "raise" THEN Raise(w.cond, pw)
        ELSE IF w.flag THEN Cond("WITHDRAWN", pw)
        ELSE IF ~se.flag THEN Cond(no_source, ps)
        ELSE Cond("UNAVAIABLE", ps)

dissemination_for_id_current(store, descriptor, format, id) ==
    LET version == current_version(store)
        p0 == version.probes
        ps_cache_pdf == ps_cache_pdf_path(format, id, version.num)
        p1 == Append(p0, Probe("exists", ps_cache_pdf))
        current_pdf == current_pdf_path
        p2 == Append(p1, Probe("exists", current_pdf))
        abs == abs_for_id(store, id, 0, 0)
        p3 == p2 \o abs.probes
    IN  IF version.kind = "none" THEN Cond("ARTICLE_NOT_FOUND", p0)
        ELSE IF Exists(store, ps_cache_pdf) THEN Handle(ps_cache_pdf, p1)
        ELSE IF Exists(store, current_pdf) THEN Handle(current_pdf, p2)
        ELSE IF abs.kind = "cond" THEN Cond(abs.cond, p3)
        ELSE after_probes(store, descriptor, id, "NO_SOURCE", p3)

\* dissemination_for_id resolving the current version (lines 118-122) before
\* the cache and 'previous' probes (lines 110-116).
dissemination_for_id_version_first(store, descriptor, format, id) ==
    LET cur_version == current_version(store)
        p1 == cur_version.probes
        ps_cache_pdf == ps_cache_pdf_path(format, id, 0)
        p2 == Append(p1, Probe("exists", ps_cache_pdf))
        non_current_pdf == previous_pdf_path(id)
        p3 == Append(p2, Probe("exists", non_current_pdf))
        current_pdf == current_pdf_path
        p4 == Append(p3, Probe("exists", current_pdf))
    IN  IF format # "pdf" THEN Raise("Only PDF is currently supported", <<>>)
        ELSE IF ~id.has_version
             THEN dissemination_for_id_current(store, descriptor, format, id)
        ELSE IF cur_version.kind = "none" THEN Cond("ARTICLE_NOT_FOUND", p1)
        ELSE IF version_above(id, cur_version.num)
             THEN Cond("VERSION_NOT_FOUND", p1)
        ELSE IF Exists(store, ps_cache_pdf) THEN Handle(ps_cache_pdf, p2)
        ELSE IF Exists(store, non_current_pdf) THEN Handle(non_current_pdf, p3)
        ELSE IF Exists(store, current_pdf) THEN Handle(current_pdf, p4)
        ELSE after_probes(store, descriptor, id, "WITHDRAWN", p4)

dissemination_for_id(store, descriptor, format, id) ==
    LET ps_cache_pdf == ps_cache_pdf_path(format, id, 0)
        p1 == <<Probe("exists", ps_cache_pdf)>>
        non_current_pdf == previous_pdf_path(id)
        p2 == Append(p1, Probe("exists", non_current_pdf))
        cur_version == current_version(store)
        p3 == p2 \o cur_version.probes
        current_pdf == current_pdf_path
        p4 == Append(p3, Probe("exists", current_pdf))
    IN  IF format # "pdf" THEN Raise("Only PDF is currently supported", <<>>)
        ELSE IF ~id.has_version
             THEN dissemination_for_id_current(store, descriptor, format, id)
        ELSE IF Exists(store, ps_cache_pdf) THEN Handle(ps_cache_pdf, p1)
        ELSE IF Exists(store, non_current_pdf) THEN Handle(non_current_pdf, p2)
        ELSE IF cur_version.kind = "none" THEN Cond("ARTICLE_NOT_FOUND", p3)
        ELSE IF version_above(id, cur_version.num)
             THEN Cond("VERSION_NOT_FOUND", p3)
        ELSE IF Exists(store, current_pdf) THEN Handle(current_pdf, p4)
        ELSE after_probes(store, descriptor, id, "WITHDRAWN", p4)

\* ------------------------------------------------------------ state machine
VARIABLES
    store,          \* the objects the object store holds
    descriptor,     \* the lines of the current-tier descriptor (ftp .abs)
    rendition_of,   \* the version the current-tier rendition is of, 0 if none
    call,           \* the ArticleStore call in progress
    result,         \* its outcome
    pc,             \* position of a probe-by-probe dissemination_for_id call
    cur_version,    \* that call's local cur_version
    pub,            \* position of a publish in progress
    interleaved     \* a publish step ran during the call in progress

vars == <<store, descriptor, rendition_of, call, result, pc, cur_version, pub,
          interleaved>>

NoCall == [op |-> "idle", id |-> NoVersionId, version |-> 0, current |-> 0,
           format |-> ""]

MkCall(op, id, version, current, format) ==
    [op |-> op, id |-> id, version |-> version, current |-> current,
     format |-> format]

\* The sets of at most k members of S.
RECURSIVE SubsetsUpTo(_, _)
SubsetsUpTo(S, k) ==
    IF k = 0 THEN {{}}
    ELSE LET smaller == SubsetsUpTo(S, k - 1)
         IN  smaller \cup {s \cup {x} : s \in smaller, x \in S}

\* The sequences of at most n members of S.
RECURSIVE SeqsUpTo(_, _)
SeqsUpTo(S, n) ==
    IF n = 0 THEN {<<>>}
    ELSE LET shorter == SeqsUpTo(S, n - 1)
         IN  shorter \cup {Append(q, x) : q \in shorter, x \in S}

\* The layout of an .abs file around its Date lines.
DescriptorOf(dates) ==
    <<Other, Marker, Other>> \o dates \o <<Other, Marker, Other, Marker>>

ArchivedVersions(s) == {path_to_version(o) : o \in List(s, "orig")}

TypeOK ==
    /\ store \subseteq Universe
    /\ call.op \in {"idle", "current_version", "abs_for_id",
                    "dissemination_for_id", "dissemination_for_id_current",
                    "is_withdrawn", "_source_type", "_source_exists",
                    "_parse_version_entries", "formats_from_source_flag",
                    "formats_from_source_file_name"}
    /\ result.kind \in {"none", "handle", "cond", "raise", "num", "bool", "str",
                       "parsed", "formats"}

Init ==
    /\ store \in SubsetsUpTo(Universe, MaxObjects)
    /\ descriptor \in IF abs_path_current \in store
                      THEN {DescriptorOf(d) : d \in SeqsUpTo(WellFormedDates, MaxDates)}
                      ELSE {<<>>}
    /\ rendition_of = IF current_pdf_path \in store
                      THEN Max(ArchivedVersions(store) \cup {0}) + 1 ELSE 0
    /\ call = NoCall
    /\ result = Blank
    /\ pc = "idle"
    /\ cur_version = 0
    /\ pub = "idle"
    /\ interleaved = FALSE

Idle == call = NoCall /\ pc = "idle"

Frame == UNCHANGED <<store, descriptor, rendition_of, pc, cur_version, pub,
                     interleaved>>

CurrentVersion ==
    /\ Idle
    /\ \E id \in Ids :
        /\ call' = MkCall("current_version", id, 0, 0, "")
        /\ result' = current_version(store)
    /\ Frame

AbsForId ==
    /\ Idle
    /\ \E id \in Ids, version \in 0..MaxVer, current \in {0, 1} :
        /\ call' = MkCall("abs_for_id", id, version, current, "")
        /\ result' = abs_for_id(store, id, version, current)
    /\ Frame

DisseminationForId ==
    /\ Idle
    /\ \E format \in Formats, id \in Ids :
        /\ call' = MkCall("dissemination_for_id", id, 0, 0, format)
        /\ result' = dissemination_for_id(store, descriptor, format, id)
    /\ Frame

DisseminationForIdCurrent ==
    /\ Idle
    /\ \E format \in Formats, id \in Ids :
        /\ call' = MkCall("dissemination_for_id_current", id, 0, 0, format)
        /\ result' = dissemination_for_id_current(store, descriptor, format, id)
    /\ Frame

IsWithdrawn ==
    /\ Idle
    /\ \E id \in Ids :
        /\ call' = MkCall("is_withdrawn", id, 0, 0, "")
        /\ result' = is_withdrawn(store, descriptor, id)
    /\ Frame

\* _source_type opening the descriptor with mode 'w' where line 185 opens it
\* with mode 'r': the open truncates the object.
SourceTypeOpenedForWriting ==
    /\ Idle
    /\ \E id \in Ids :
        /\ call' = MkCall("_source_type", id, 0, 0, "")
        /\ result' = source_type(store, descriptor, id)
    /\ descriptor' = <<>>
    /\ UNCHANGED <<store, rendition_of, pc, cur_version, pub, interleaved>>

SourceType ==
    /\ Idle
    /\ \E id \in Ids :
        /\ call' = MkCall("_source_type", id, 0, 0, "")
        /\ result' = source_type(store, descriptor, id)
    /\ Frame

SourceExists ==
    /\ Idle
    /\ \E id \in Ids :
        /\ call' = MkCall("_source_exists", id, 0, 0, "")
        /\ result' = source_exists(store, id)
    /\ Frame

\* The caller takes the outcome; the ArticleStore keeps nothing of the call.
Return ==
    /\ call # NoCall
    /\ pc \in {"idle", "done"}
    /\ call' = NoCall
    /\ result' = Blank
    /\ pc' = "idle"
    /\ cur_version' = 0
    /\ interleaved' = FALSE
    /\ UNCHANGED <<store, descriptor, rendition_of, pub>>

Next ==
    \/ CurrentVersion
    \/ AbsForId
    \/ DisseminationForId
    \/ DisseminationForIdCurrent
    \/ IsWithdrawn
    \/ SourceType
    \/ SourceExists
    \/ Return

Spec == Init /\ [][Next]_vars

\* ------------------------------------------------ parsing of the Date lines
\* Date lines of every kind: the three that match and whose date parses, one
\* that does not match RE_DATE_COMPONENTS, one whose date does not parse.
DateLines ==
    WellFormedDates \cup {DateLine(FALSE, FALSE, FALSE, ""),
                          DateLine(TRUE, FALSE, TRUE, "")}

InitParse ==
    /\ store = {abs_path_current}
    /\ descriptor \in {DescriptorOf(d) : d \in SeqsUpTo(DateLines, MaxDates)}
    /\ rendition_of = 0
    /\ call = NoCall
    /\ result = Blank
    /\ pc = "idle"
    /\ cur_version = 0
    /\ pub = "idle"
    /\ interleaved = FALSE

\* _parse_version_entries on the Date lines _source_type hands it (line 201).
ParseVersionEntries ==
    /\ Idle
    /\ call' = MkCall("_parse_version_entries", NoVersionId, 0, 0, "")
    /\ LET parsed == parse_version_entries(ScanLines(descriptor, 1, FALSE, <<>>))
       IN  result' = IF parsed.error # "" THEN Raise(parsed.error, <<>>)
                     ELSE Parsed(parsed.count, parsed.versions)
    /\ Frame

NextParse ==
    \/ ParseVersionEntries
    \/ SourceType
    \/ IsWithdrawn
    \/ Return

SpecParse == InitParse /\ [][NextParse]_vars

\* ------------------------------------------------------------ format codes
\* browse.services.documents.format_codes. A source flag is a string, here a
\* sequence of characters.
FlagLetters == {"S", "s", "I", "i", "P", "D", "F", "h", "X", "O", "A"}

ToUpper(ch) ==
    CASE ch = "s" -> "S"
      [] ch = "i" -> "I"
      [] ch = "h" -> "H"
      [] OTHER -> ch

\* re.search(letters, source_flag, re.IGNORECASE) for a class of upper-case
\* letters.
SearchIgnoreCase(letters, source_flag) ==
    \E i \in 1..Len(source_flag) : ToUpper(source_flag[i]) \in letters

\* A format preference is a string, here a sequence of tokens none of which,
\* alone or next to another, holds a searched string other than itself.
PrefTokens == {"pdf", "400", "600", "fname=cm", "fname=CM", "dvi", "src", "SRC"}

\* re.search(pattern, format_pref) for a literal pattern: case-sensitive.
Search(pattern, format_pref) ==
    \E i \in 1..Len(format_pref) : format_pref[i] = pattern

\* formats_from_source_flag testing the PDFlatex flag before the PS-only one.
formats_from_source_flag_pdflatex_first(source_flag, format_pref, cache_flag) ==
    LET has_encrypted_source == SearchIgnoreCase({"S"}, source_flag)
        has_ignore == SearchIgnoreCase({"I"}, source_flag)
        has_ps_only == SearchIgnoreCase({"P"}, source_flag)
        has_pdflatex == SearchIgnoreCase({"D"}, source_flag)
        has_pdf_only == SearchIgnoreCase({"F"}, source_flag)
        has_html == SearchIgnoreCase({"H"}, source_flag)
        has_docx_or_odf == SearchIgnoreCase({"X", "O"}, source_flag)
        has_src_pref == Search("src", format_pref)
        preferred ==
            IF Search("pdf", format_pref) THEN <<"pdf">>
            ELSE IF Search("400", format_pref) THEN <<"ps(400)">>
            ELSE IF Search("600", format_pref) THEN <<"ps(600)">>
            ELSE IF Search("fname=cm", format_pref) THEN <<"ps(cm)">>
            ELSE IF Search("fname=CM", format_pref) THEN <<"ps(CM)">>
            ELSE IF Search("dvi", format_pref) THEN <<"dvi">>
            ELSE IF has_src_pref
                 THEN IF ~has_encrypted_source THEN <<"pdf", "ps", "src">>
                      ELSE <<"pdf", "ps">>
            ELSE <<"pdf", "ps">>
    IN  IF has_ignore /\ ~has_encrypted_source THEN <<"src">>
        ELSE IF has_pdflatex
             THEN IF has_src_pref /\ ~has_encrypted_source
                  THEN <<"pdf", "src", "other">>
                  ELSE <<"pdf", "other">>
        ELSE IF has_ps_only THEN <<"pdf", "ps", "other">>
        ELSE IF has_pdf_only THEN <<"pdf", "other">>
        ELSE IF has_html THEN <<"html", "other">>
        ELSE IF has_docx_or_odf THEN <<"pdf", "other">>
        ELSE IF cache_flag THEN <<"nops", "other">>
        ELSE Append(preferred, "other")

formats_from_source_flag(source_flag, format_pref, cache_flag) ==
    LET has_encrypted_source == SearchIgnoreCase({"S"}, source_flag)
        has_ignore == SearchIgnoreCase({"I"}, source_flag)
        has_ps_only == SearchIgnoreCase({"P"}, source_flag)
        has_pdflatex == SearchIgnoreCase({"D"}, source_flag)
        has_pdf_only == SearchIgnoreCase({"F"}, source_flag)
        has_html == SearchIgnoreCase({"H"}, source_flag)
        has_docx_or_odf == SearchIgnoreCase({"X", "O"}, source_flag)
        has_src_pref == Search("src", format_pref)
        preferred ==
            IF Search("pdf", format_pref) THEN <<"pdf">>
            ELSE IF Search("400", format_pref) THEN <<"ps(400)">>
            ELSE IF Search("600", format_pref) THEN <<"ps(600)">>
            ELSE IF Search("fname=cm", format_pref) THEN <<"ps(cm)">>
            ELSE IF Search("fname=CM", format_pref) THEN <<"ps(CM)">>
            ELSE IF Search("dvi", format_pref) THEN <<"dvi">>
            ELSE IF has_src_pref
                 THEN IF ~has_encrypted_source THEN <<"pdf", "ps", "src">>
                      ELSE <<"pdf", "ps">>
            ELSE <<"pdf", "ps">>
    IN  IF has_ignore /\ ~has_encrypted_source THEN <<"src">>
        ELSE IF has_ps_only THEN <<"pdf", "ps", "other">>
        ELSE IF has_pdflatex
             THEN IF has_src_pref /\ ~has_encrypted_source
                  THEN <<"pdf", "src", "other">>
                  ELSE <<"pdf", "other">>
        ELSE IF has_pdf_only THEN <<"pdf", "other">>
        ELSE IF has_html THEN <<"html", "other">>
        ELSE IF has_docx_or_odf THEN <<"pdf", "other">>
        ELSE IF cache_flag THEN <<"nops", "other">>
        ELSE Append(preferred, "other")

\* A file name is a string, here the sequence of its parts between the dots:
\* '0704.0001.ps.gz' is <<"0704", "0001", "ps", "gz">>, '' is <<>>.
NameParts == {"0704", "tar", "pdf", "ps", "gz", "dvi", "html"}

\* The table of format_codes.py, in its order; is_list is FALSE for None.
NoFormats == [is_list |-> FALSE, list |-> <<>>]

FormatList(l) == [is_list |-> TRUE, list |-> l]

VALID_SOURCE_EXTENSIONS_format_codes ==
    << [ext |-> <<"tar", "gz">>, formats |-> NoFormats],
       [ext |-> <<"pdf">>, formats |-> FormatList(<<"pdfonly">>)],
       [ext |-> <<"ps", "gz">>, formats |-> FormatList(<<"pdf", "ps">>)],
       [ext |-> <<"gz">>, formats |-> NoFormats],
       [ext |-> <<"dvi", "gz">>, formats |-> NoFormats],
       [ext |-> <<"html", "gz">>, formats |-> FormatList(<<"html">>)] >>

\* str.endswith('.' + ext): the dot of the extension follows another part.
EndsWith(path, ext) ==
    /\ Len(path) > Len(ext)
    /\ SubSeq(path, Len(path) - Len(ext) + 1, Len(path)) = ext

\* formats_from_source_file_name returning the mapping of the first entry
\* whose suffix matches, a list or not ([] for None).
formats_from_source_file_name_first_suffix(source_file_path) ==
    LET T == VALID_SOURCE_EXTENSIONS_format_codes
        hits == {i \in 1..Len(T) : EndsWith(source_file_path, T[i].ext)}
    IN  IF source_file_path = <<>> \/ hits = {} THEN <<>>
        ELSE T[CHOOSE i \in hits : \A j \in hits : i <= j].formats.list

formats_from_source_file_name(source_file_path) ==
    LET T == VALID_SOURCE_EXTENSIONS_format_codes
        hits == {i \in 1..Len(T) : /\ EndsWith(source_file_path, T[i].ext)
                                   /\ T[i].formats.is_list}
    IN  IF source_file_path = <<>> \/ hits = {} THEN <<>>
        ELSE T[CHOOSE i \in hits : \A j \in hits : i <= j].formats.list

\* The list a format_codes function returned.
ListResult(l) == [Blank EXCEPT !.kind = "formats", !.entries = l]

InitFormats ==
    /\ store = {}
    /\ descriptor = <<>>
    /\ rendition_of = 0
    /\ call = NoCall
    /\ result = Blank
    /\ pc = "idle"
    /\ cur_version = 0
    /\ pub = "idle"
    /\ interleaved = FALSE

FormatsFromSourceFlag ==
    /\ Idle
    /\ \E source_flag \in SeqsUpTo(FlagLetters, MaxFlags),
          format_pref \in SeqsUpTo(PrefTokens, MaxPrefs),
          cache_flag \in BOOLEAN :
        /\ call' = [op |-> "formats_from_source_flag",
                    source_flag |-> source_flag, format_pref |-> format_pref,
                    cache_flag |-> cache_flag]
        /\ result' = ListResult(formats_from_source_flag(source_flag, format_pref,
                                                       cache_flag))
    /\ Frame

FormatsFromSourceFileName ==
    /\ Idle
    /\ \E source_file_path \in SeqsUpTo(NameParts, MaxExtParts) :
        /\ call' = [op |-> "formats_from_source_file_name",
                    source_file_path |-> source_file_path]
        /\ result' = ListResult(formats_from_source_file_name(source_file_path))
    /\ Frame

NextFormats ==
    \/ FormatsFromSourceFlag
    \/ FormatsFromSourceFileName
    \/ Return

SpecFormats == InitFormats /\ [][NextFormats]_vars

\* ------------------------------------------- a publish during a resolution
\* The store after n versions were published: the archive holds the
\* descriptor and the source of versions 1..n-1 (for a PDF-only article the
\* source is the PDF, at the 'previous' rendition path), the current tier
\* those of version n.
PublishedStore(n, pdf_only) ==
    LET src == IF pdf_only THEN PdfExt ELSE TarGzExt
    IN  {Obj("orig", v, e) : v \in 1..(n - 1), e \in {AbsExt, src}}
        \cup {Obj("ftp", NoSuffix, AbsExt), Obj("ftp", NoSuffix, src)}

NormalDate == DateLine(TRUE, TRUE, TRUE, "")

InitPub ==
    /\ \E n \in 1..(MaxVer - 1), pdf_only \in BOOLEAN :
        /\ \E cached \in SUBSET {CacheObj("pdf", v, PdfExt) : v \in 1..n} :
              store = PublishedStore(n, pdf_only) \cup cached
        /\ descriptor = DescriptorOf([i \in 1..n |-> NormalDate])
        /\ rendition_of = IF pdf_only THEN n ELSE 0
    /\ call = NoCall
    /\ result = Blank
    /\ pc = "idle"
    /\ cur_version = 0
    /\ pub = "idle"
    /\ interleaved = FALSE

InCall == pc \notin {"idle", "done"}

\* The three writes of publishing version N + 1, N the version the current
\* descriptor describes: version N's entries are added to the archive, then
\* the current descriptor is replaced, then the current source (for a
\* PDF-only article, the current rendition).
PublishArchive ==
    /\ pub = "idle"
    /\ Len(ScanLines(descriptor, 1, FALSE, <<>>)) < MaxVer
    /\ LET n == Len(ScanLines(descriptor, 1, FALSE, <<>>))
           src == IF current_pdf_path \in store THEN PdfExt ELSE TarGzExt
       IN  store' = store \cup {Obj("orig", n, AbsExt), Obj("orig", n, src)}
    /\ pub' = "archived"
    /\ interleaved' = (interleaved \/ InCall)
    /\ UNCHANGED <<descriptor, rendition_of, call, result, pc, cur_version>>

PublishDescriptor ==
    /\ pub = "archived"
    /\ descriptor' = DescriptorOf(
           Append(ScanLines(descriptor, 1, FALSE, <<>>), NormalDate))
    /\ pub' = "described"
    /\ interleaved' = (interleaved \/ InCall)
    /\ UNCHANGED <<store, rendition_of, call, result, pc, cur_version>>

PublishSource ==
    /\ pub = "described"
    /\ rendition_of' = IF current_pdf_path \in store
                       THEN Len(ScanLines(descriptor, 1, FALSE, <<>>))
                       ELSE rendition_of
    /\ pub' = "idle"
    /\ interleaved' = (interleaved \/ InCall)
    /\ UNCHANGED <<store, descriptor, call, result, pc, cur_version>>

\* dissemination_for_id('pdf', id) for a versioned id, one store probe (or
\* one nested call) a step, so that publish writes fall between its probes.
PubFrame == UNCHANGED <<store, descriptor, rendition_of, pub>>

Probed(o) == Append(result.probes, Probe("exists", o))

Start ==
    /\ Idle
    /\ \E id \in Ids :
        /\ id.has_version
        /\ call' = MkCall("dissemination_for_id", id, 0, 0, "pdf")
    /\ result' = Blank
    /\ pc' = "ps_cache"
    /\ interleaved' = FALSE
    /\ UNCHANGED cur_version
    /\ PubFrame

\* Lines 110-112.
ProbeCache ==
    /\ pc = "ps_cache"
    /\ LET ps_cache_pdf == ps_cache_pdf_path(call.format, call.id, 0)
       IN  IF Exists(store, ps_cache_pdf)
           THEN /\ result' = Handle(ps_cache_pdf, Probed(ps_cache_pdf))
                /\ pc' = "done"
           ELSE /\ result' = None(Probed(ps_cache_pdf))
                /\ pc' = "previous"
    /\ UNCHANGED <<call, cur_version, interleaved>>
    /\ PubFrame

\* Lines 114-116.
ProbePrevious ==
    /\ pc = "previous"
    /\ LET non_current_pdf == previous_pdf_path(call.id)
       IN  IF Exists(store, non_current_pdf)
           THEN /\ result' = Handle(non_current_pdf, Probed(non_current_pdf))
                /\ pc' = "done"
           ELSE /\ result' = None(Probed(non_current_pdf))
                /\ pc' = "current_version"
    /\ UNCHANGED <<call, cur_version, interleaved>>
    /\ PubFrame

\* Lines 118-122.
ReadCurrentVersion ==
    /\ pc = "current_version"
    /\ LET cv == current_version(store)
           p == result.probes \o cv.probes
       IN  /\ cur_version' = cv.num
           /\ IF cv.kind = "none"
              THEN result' = Cond("ARTICLE_NOT_FOUND", p) /\ pc' = "done"
              ELSE IF version_above(call.id, cv.num)
              THEN result' = Cond("VERSION_NOT_FOUND", p) /\ pc' = "done"
              ELSE result' = None(p) /\ pc' = "current_pdf"
    /\ UNCHANGED <<call, interleaved>>
    /\ PubFrame

\* Lines 124-126.
ProbeCurrent ==
    /\ pc = "current_pdf"
    /\ LET current_pdf == current_pdf_path
       IN  IF Exists(store, current_pdf)
           THEN /\ result' = Handle(current_pdf, Probed(current_pdf))
                /\ pc' = "done"
           ELSE /\ result' = None(Probed(current_pdf))
                /\ pc' = "after_probes"
    /\ UNCHANGED <<call, cur_version, interleaved>>
    /\ PubFrame

\* Lines 128-135.
AfterProbes ==
    /\ pc = "after_probes"
    /\ result' = after_probes(store, descriptor, call.id, "WITHDRAWN",
                              result.probes)
    /\ pc' = "done"
    /\ UNCHANGED <<call, cur_version, interleaved>>
    /\ PubFrame

NextPub ==
    \/ Start
    \/ ProbeCache
    \/ ProbePrevious
    \/ ReadCurrentVersion
    \/ ProbeCurrent
    \/ AfterProbes
    \/ Return
    \/ PublishArchive
    \/ PublishDescriptor
    \/ PublishSource

SpecPub == InitPub /\ [][NextPub]_vars

\* ------------------------------------------------------------------- claims
IsCond(r, c) == r.kind = "cond" /\ r.cond = c

IsHandle(r, o) == r.kind = "handle" /\ r.obj = o

\* A versioned dissemination_for_id('pdf', id) call has returned.
VersionedPdfCall ==
    /\ call.op = "dissemination_for_id"
    /\ call.format = "pdf"
    /\ call.id.has_version

\* The version current_version resolves for the store, 0 when it returns None.
Resolved == LET c == current_version(store)
            IN  IF c.kind = "num" THEN c.num ELSE 0

\* C1 as stated: for an explicit version v above the resolvable current
\* version c, dissemination_for_id('pdf', id) returns VERSION_NOT_FOUND.
C1_Original ==
    (VersionedPdfCall /\ Resolved # 0 /\ call.id.version > Resolved)
        => IsCond(result, "VERSION_NOT_FOUND")

\* C1 amended: for an explicit version v above the resolvable current version
\* c, dissemination_for_id('pdf', id) returns VERSION_NOT_FOUND provided
\* neither the cache-tier nor the 'previous' rendition of v exists; a
\* cache-tier rendition of v is returned as a handle whatever c is.
C1_VersionNotFound ==
    (VersionedPdfCall /\ Resolved # 0 /\ call.id.version > Resolved)
        => IF CacheObj("pdf", call.id.version, PdfExt) \in store
           THEN IsHandle(result, CacheObj("pdf", call.id.version, PdfExt))
           ELSE IF Obj("orig", call.id.version, PdfExt) \in store
           THEN IsHandle(result, Obj("orig", call.id.version, PdfExt))
           ELSE IsCond(result, "VERSION_NOT_FOUND")

C1_Witness ==
    /\ VersionedPdfCall
    /\ Resolved = 2
    /\ call.id.version = 3
    /\ CacheObj("pdf", 3, PdfExt) \notin store
    /\ IsCond(result, "VERSION_NOT_FOUND")

\* C2: a versioned dissemination_for_id('pdf', id) returns the current-tier
\* rendition only when the requested version equals the current version.
C2_CurrentOnlyAtCurrentVersion ==
    (VersionedPdfCall /\ IsHandle(result, Obj("ftp", NoSuffix, PdfExt)))
        => call.id.version = Resolved

\* C3: current_version returns the highest vN suffix among the archive
\* entries of the identifier (0 for an entry without suffix) plus one; 1 when
\* the archive lists nothing and the current descriptor exists; else None.
C3_CurrentVersion ==
    call.op = "current_version" =>
        LET archived == {o \in store : o.tier = "orig"}
        IN  IF archived # {}
            THEN /\ result.kind = "num"
                 /\ \E o \in archived : result.num = o.ver + 1
                 /\ \A o \in archived : result.num > o.ver
            ELSE IF Obj("ftp", NoSuffix, AbsExt) \in store
            THEN result.kind = "num" /\ result.num = 1
            ELSE result.kind = "none"

C3_Witness ==
    /\ call.op = "current_version"
    /\ {o.ver : o \in {x \in store : x.tier = "orig"}} = {1, 2}
    /\ result.kind = "num"
    /\ result.num = 3

\* The Date lines of the current descriptor.
IsDateLine(l) == l.kind = "date"

Dates == SelectSeq(descriptor, IsDateLine)

\* The current descriptor exists and every Date line of it yields a record.
DescriptorParses ==
    /\ Obj("ftp", NoSuffix, AbsExt) \in store
    /\ \A i \in 1..Len(Dates) :
          Dates[i].match /\ Dates[i].date_ok /\ Dates[i].has_size

\* The source-type flag of the record is_withdrawn looks at, for a descriptor
\* that parses: record v for a versioned id ("" past the last record), the
\* last record otherwise ("none" when there is no record).
FlagFor(id) ==
    IF id.has_version
    THEN IF id.version <= Len(Dates) THEN Dates[id.version].source_type ELSE ""
    ELSE IF Dates # <<>> THEN Dates[Len(Dates)].source_type ELSE "none"

NotWithdrawn(id) == DescriptorParses /\ FlagFor(id) \notin {"I", "none"}

\* The name of o ends with one of the source extensions.
HasSourceExtension(o) ==
    \E e \in VALID_SOURCE_EXTENSIONS :
        /\ Len(e) <= Len(o.ext)
        /\ SubSeq(o.ext, Len(o.ext) - Len(e) + 1, Len(o.ext)) = e

\* The tier holding the version the identifier asks for.
TierOf(id) ==
    IF ~id.has_version \/ id.version = Resolved THEN "ftp" ELSE "orig"

NoSourceListed(id) ==
    \A o \in store : o.tier = TierOf(id) => ~HasSourceExtension(o)

\* Descriptor resolution abs_for_id(id) finds a descriptor.
DescriptorFound(id) ==
    IF ~id.has_version \/ id.version = 1
    THEN Obj("ftp", NoSuffix, AbsExt) \in store
    ELSE \/ Obj("orig", id.version, AbsExt) \in store
         \/ Obj("orig", id.version - 1, AbsExt) \in store

\* A dissemination_for_id_current('pdf', id) call has returned, made directly
\* or by dissemination_for_id for an identifier without version.
CurrentPdfCall ==
    /\ call.format = "pdf"
    /\ \/ call.op = "dissemination_for_id_current"
       \/ call.op = "dissemination_for_id" /\ ~call.id.has_version

C5_Withdrawn ==
    (DescriptorParses /\ ~call.id.has_version /\ FlagFor(call.id) = "I") =>
        /\ call.op = "is_withdrawn" => result.kind = "bool" /\ result.flag
        /\ ( /\ CurrentPdfCall
             /\ CacheObj("pdf", Resolved, PdfExt) \notin store
             /\ Obj("ftp", NoSuffix, PdfExt) \notin store )
           => IsCond(result, "WITHDRAWN")

C5_Witness ==
    /\ call.op = "dissemination_for_id_current"
    /\ call.format = "pdf"
    /\ ~call.id.has_version
    /\ DescriptorParses
    /\ FlagFor(call.id) = "I"
    /\ Len(Dates) = 2
    /\ IsCond(result, "WITHDRAWN")

Conditions ==
    {"WITHDRAWN", "ARTICLE_NOT_FOUND", "VERSION_NOT_FOUND", "NO_SOURCE",
     "UNAVAIABLE"}

\* C6: dissemination_for_id('pdf', id) and dissemination_for_id_current('pdf',
\* id) return a handle or one of the five conditions and never raise, for
\* every store whose descriptor is well-formed.
C6_NeverRaises ==
    (call.format = "pdf"
     /\ call.op \in {"dissemination_for_id", "dissemination_for_id_current"})
        => \/ result.kind = "handle"
           \/ result.kind = "cond" /\ result.cond \in Conditions

\* The archive route of abs_for_id (the negation of line 81).
ArchiveRoute ==
    /\ call.op = "abs_for_id"
    /\ call.current = 0
    /\ call.id.has_version
    /\ ~(call.version = 1 \/ call.id.version = 1)

\* The requested version: the version argument when non-zero, else the
\* identifier's.
Requested == IF call.version # 0 THEN call.version ELSE call.id.version

\* C8: on the archive route abs_for_id returns the archived descriptor of the
\* requested version r if it exists, else that of r - 1 if it exists, else
\* VERSION_NOT_FOUND.
C8_RetryRequestedMinusOne ==
    ArchiveRoute =>
        IF Obj("orig", Requested, AbsExt) \in store
        THEN IsHandle(result, Obj("orig", Requested, AbsExt))
        ELSE IF Obj("orig", Requested - 1, AbsExt) \in store
        THEN IsHandle(result, Obj("orig", Requested - 1, AbsExt))
        ELSE IsCond(result, "VERSION_NOT_FOUND")

\* The tiers a call probed.
ProbedTiers == {result.probes[i].obj.tier : i \in 1..Len(result.probes)}

\* From the current tier: the descriptor if it exists, else
\* ARTICLE_NOT_FOUND, the archive never consulted.
FromCurrentTier ==
    /\ IF Obj("ftp", NoSuffix, AbsExt) \in store
       THEN IsHandle(result, Obj("ftp", NoSuffix, AbsExt))
       ELSE IsCond(result, "ARTICLE_NOT_FOUND")
    /\ ProbedTiers = {"ftp"}

\* C9 as stated: abs_for_id reads the current tier when the version argument
\* is 0, the requested version is 1, the identifier has no version or the
\* current flag is set, and consults only the archive in every other case.
C9_Original ==
    call.op = "abs_for_id" =>
        IF \/ call.version = 0
           \/ Requested = 1
           \/ ~call.id.has_version
           \/ call.current # 0
        THEN FromCurrentTier
        ELSE ProbedTiers = {"orig"}

\* C9 amended: abs_for_id reads the current tier when the current flag is
\* set, the identifier has no version, the version argument is 1 or the
\* identifier's version is 1, and consults only the archive in every other
\* case, a version argument of 0 with an identifier of version 2 or more
\* included.
C9_CurrentRoute ==
    call.op = "abs_for_id" =>
        IF \/ call.current # 0
           \/ ~call.id.has_version
           \/ call.version = 1
           \/ call.id.version = 1
        THEN FromCurrentTier
        ELSE ProbedTiers = {"orig"}

C9_Witness ==
    /\ call.op = "abs_for_id"
    /\ call.version = 0
    /\ call.current = 0
    /\ call.id.version = 2
    /\ Obj("ftp", NoSuffix, AbsExt) \in store
    /\ IsHandle(result, Obj("orig", 2, AbsExt))

\* C10: _source_exists is true iff the article exists and the tier of the
\* identifier's version lists an entry of that version with a source
\* extension.
C10_SourceOfThatVersion ==
    call.op = "_source_exists" =>
        /\ result.kind = "bool"
        /\ result.flag <=>
            /\ Resolved # 0
            /\ \E o \in store :
                /\ o.tier = TierOf(call.id)
                /\ o.ver = IF TierOf(call.id) = "orig" THEN call.id.version
                           ELSE NoSuffix
                /\ HasSourceExtension(o)

\* The version of the rendition an object is: the vN of its name in the
\* cache and archive tiers, what the current tier holds for the current one.
RenditionVersion(o, held) ==
    IF o.tier = "ftp" THEN held ELSE o.ver

\* C7: a versioned dissemination_for_id('pdf', id) call that publish writes
\* interleave with never returns a handle to a rendition of another version
\* than the one asked for.
C7_NoOtherVersion ==
    [][(pc # "done" /\ pc' = "done" /\ interleaved' /\ result'.kind = "handle")
        => RenditionVersion(result'.obj, rendition_of') = call'.id.version]_vars


\* C11: with K records parsed from the current descriptor, _source_type
\* returns the flag of record v for an explicit version v <= K, the empty
\* string (no error) for v > K, and the flag of record K, the latest, for an
\* identifier without version.
C11_SourceType ==
    (call.op = "_source_type" /\ DescriptorParses
     /\ (call.id.has_version \/ Dates # <<>>))
        => /\ result.kind = "str"
           /\ result.cond = FlagFor(call.id)

C11_Witness ==
    /\ call.op = "_source_type"
    /\ DescriptorParses
    /\ Len(Dates) = 2
    /\ Dates[1].source_type = "I"
    /\ Dates[2].source_type = ""
    /\ call.id = VersionedId(1)
    /\ result.kind = "str"
    /\ result.cond = "I"


\* Every Date line of the descriptor matches the pattern and holds a date
\* that parses.
DatesWellFormed == \A i \in 1..Len(Dates) : Dates[i].match /\ Dates[i].date_ok

\* C12: on K well-formed Date lines _parse_version_entries returns count K and
\* K records numbered 1..K in line order; on a Date line that does not match
\* or whose date does not parse it raises and returns no list.
C12_ParseVersionEntries ==
    call.op = "_parse_version_entries"
        => IF DatesWellFormed
           THEN /\ result.kind = "parsed"
                /\ result.num = Len(Dates)
                /\ Len(result.entries) = Len(Dates)
                /\ \A i \in 1..Len(result.entries) : result.entries[i].version = i
           ELSE /\ result.kind = "raise"
                /\ result.entries = <<>>

\* The Date line that the record looked up for id comes from, 0 when none.
LineFor(id) ==
    IF id.has_version THEN (IF id.version <= Len(Dates) THEN id.version ELSE 0)
    ELSE Len(Dates)

\* C13: a matching Date line without the parenthesized part yields a record
\* whose source type is the empty string, and is_withdrawn answers False for
\* the version of that record.
C13_AbsentSizePart ==
    /\ (call.op = "_parse_version_entries" /\ DatesWellFormed)
          => /\ result.kind = "parsed"
             /\ \A i \in 1..Len(Dates) :
                   ~Dates[i].has_size => result.entries[i].source_type = ""
    /\ (call.op = "is_withdrawn" /\ DatesWellFormed /\ LineFor(call.id) > 0)
          => (~Dates[LineFor(call.id)].has_size
                 => result.kind = "bool" /\ ~result.flag)


\* C14: a dissemination request for a format other than 'pdf' raises before
\* any store probe, through dissemination_for_id and through
\* dissemination_for_id_current alike.
C14_OtherFormatRaises ==
    (/\ call.op \in {"dissemination_for_id", "dissemination_for_id_current"}
     /\ call.format # "pdf")
        => /\ result.kind = "raise"
           /\ result.probes = <<>>


\* C15 is not stated: each operation is an operator of the store, the
\* descriptor and the arguments, so two calls on an unchanged store are two
\* evaluations of one operator. What the operations leave unchanged is C16.

\* C16: no ArticleStore operation, whatever its outcome, changes the set of
\* objects of any tier, the content of the descriptor, or which version the
\* current rendition is of.
C16_ReadOnly == [][UNCHANGED <<store, descriptor, rendition_of>>]_vars

C16_Witness ==
    /\ call.op = "_source_type"
    /\ result.kind = "str"
    /\ abs_path_current \in store
    /\ Len(Dates) = 2
    /\ Cardinality(store) = 2


\* The flag of the call holds one of the characters of chars.
FlagHas(chars) ==
    \E i \in 1..Len(call.source_flag) : call.source_flag[i] \in chars

\* The preference of the call holds the string s.
PrefHas(s) == \E i \in 1..Len(call.format_pref) : call.format_pref[i] = s

Encrypted == FlagHas({"S", "s"})

\* No flag letter and no cache flag decides: the preference branch is taken.
PreferenceBranch ==
    /\ ~(FlagHas({"I", "i"}) /\ ~Encrypted)
    /\ ~FlagHas({"P", "p", "D", "d", "F", "f", "H", "h", "X", "x", "O", "o"})
    /\ ~call.cache_flag

\* The rows of the table above the preference branch, first match first.
FlagRows ==
    IF FlagHas({"I", "i"}) /\ ~Encrypted THEN result.entries = <<"src">>
    ELSE IF FlagHas({"P", "p"}) THEN result.entries = <<"pdf", "ps", "other">>
    ELSE IF FlagHas({"D", "d"})
         THEN result.entries = IF PrefHas("src") /\ ~Encrypted
                               THEN <<"pdf", "src", "other">>
                               ELSE <<"pdf", "other">>
    ELSE IF FlagHas({"F", "f"}) THEN result.entries = <<"pdf", "other">>
    ELSE IF FlagHas({"H", "h"}) THEN result.entries = <<"html", "other">>
    ELSE IF FlagHas({"X", "x", "O", "o"}) THEN result.entries = <<"pdf", "other">>
    ELSE IF call.cache_flag THEN result.entries = <<"nops", "other">>
    ELSE TRUE

\* The format of the first preference string found, among the six that yield
\* one format.
SingleFormat ==
    IF PrefHas("pdf") THEN "pdf"
    ELSE IF PrefHas("400") THEN "ps(400)"
    ELSE IF PrefHas("600") THEN "ps(600)"
    ELSE IF PrefHas("fname=cm") THEN "ps(cm)"
    ELSE IF PrefHas("fname=CM") THEN "ps(CM)"
    ELSE IF PrefHas("dvi") THEN "dvi"
    ELSE ""

\* C17 as stated: in the preference branch each of pdf, 400, 600, fname=cm,
\* fname=CM, dvi and src yields one format, followed by 'other'.
C17_Original ==
    call.op = "formats_from_source_flag"
        => /\ FlagRows
           /\ PreferenceBranch
                 => IF SingleFormat # "" \/ PrefHas("src")
                    THEN /\ Len(result.entries) = 2
                         /\ result.entries[2] = "other"
                    ELSE result.entries = <<"pdf", "ps", "other">>

\* C17: formats_from_source_flag equals the first-match-wins table; in the
\* preference branch pdf, 400, 600, fname=cm, fname=CM and dvi yield one
\* format, src yields pdf, ps and, unless the source is encrypted, src,
\* nothing matching yields pdf, ps, and 'other' follows in each case.
C17_FormatsTable ==
    call.op = "formats_from_source_flag"
        => /\ FlagRows
           /\ PreferenceBranch
                 => result.entries =
                       IF SingleFormat # "" THEN <<SingleFormat, "other">>
                       ELSE IF PrefHas("src") /\ ~Encrypted
                            THEN <<"pdf", "ps", "src", "other">>
                            ELSE <<"pdf", "ps", "other">>

C17_Witness ==
    /\ call.op = "formats_from_source_flag"
    /\ call.source_flag = <<"A">>
    /\ call.format_pref = <<"src">>
    /\ ~call.cache_flag
    /\ result.entries = <<"pdf", "ps", "src", "other">>

\* The name of the call ends with a dot and the parts of ext.
PathEndsIn(ext) ==
    LET path == call.source_file_path
    IN  /\ Len(path) > Len(ext)
        /\ \A k \in 1..Len(ext) : path[Len(path) - Len(ext) + k] = ext[k]

\* C18: formats_from_source_file_name gives [pdfonly] for a name ending .pdf,
\* [pdf, ps] for .ps.gz, [html] for .html.gz, and the empty list for every
\* other name, those ending only in .tar.gz, .dvi.gz or .gz and the empty
\* name included.
C18_FormatsFromFileName ==
    call.op = "formats_from_source_file_name"
        => result.entries =
              IF PathEndsIn(<<"pdf">>) THEN <<"pdfonly">>
              ELSE IF PathEndsIn(<<"ps", "gz">>) THEN <<"pdf", "ps">>
              ELSE IF PathEndsIn(<<"html", "gz">>) THEN <<"html">>
              ELSE <<>>

C18_Witness ==
    /\ call.op = "formats_from_source_file_name"
    /\ call.source_file_path = <<"0704", "html", "gz">>
    /\ result.entries = <<"html">>


\* The store accesses of one current_version call: the archive listing, and
\* the current descriptor when the listing is empty.
CurrentVersionProbes ==
    IF \E o \in store : o.tier = "orig"
    THEN <<[op |-> "list", obj |-> Obj("orig", NoSuffix, <<>>)]>>
    ELSE <<[op |-> "list", obj |-> Obj("orig", NoSuffix, <<>>)],
           [op |-> "exists", obj |-> Obj("ftp", NoSuffix, AbsExt)]>>

\* Every store access of a versioned dissemination_for_id that stops nowhere
\* early: cache, 'previous', current_version, current rendition, withdrawal
\* (the descriptor is opened), source existence (current_version again, then
\* the listing of the tier of the version).
ProbeOrder ==
    LET v == call.id.version
    IN  <<[op |-> "exists", obj |-> CacheObj("pdf", v, PdfExt)],
          [op |-> "exists", obj |-> Obj("orig", v, PdfExt)]>>
        \o CurrentVersionProbes
        \o <<[op |-> "exists", obj |-> Obj("ftp", NoSuffix, PdfExt)],
             [op |-> "open", obj |-> Obj("ftp", NoSuffix, AbsExt)]>>
        \o CurrentVersionProbes
        \o <<[op |-> "list",
              obj |-> Obj(IF v = Resolved THEN "ftp" ELSE "orig", NoSuffix, <<>>)]>>

\* C19: a versioned dissemination_for_id('pdf', id) probes in the order
\* cache, 'previous', current_version, current rendition, withdrawal, source
\* existence and stops at the first hit: an existing cache rendition of the
\* requested version is returned after one probe, else an existing 'previous'
\* rendition after two, whatever the descriptor and the archive hold.
C19_ProbeOrder ==
    VersionedPdfCall
        => LET v == call.id.version
               n == Len(result.probes)
           IN  /\ n <= Len(ProbeOrder)
               /\ result.probes = SubSeq(ProbeOrder, 1, n)
               /\ CacheObj("pdf", v, PdfExt) \in store
                     => IsHandle(result, CacheObj("pdf", v, PdfExt)) /\ n = 1
               /\ (CacheObj("pdf", v, PdfExt) \notin store
                   /\ Obj("orig", v, PdfExt) \in store)
                     => IsHandle(result, Obj("orig", v, PdfExt)) /\ n = 2

C19_Witness ==
    /\ VersionedPdfCall
    /\ call.id = VersionedId(2)
    /\ CacheObj("pdf", 2, PdfExt) \notin store
    /\ DescriptorParses
    /\ Len(Dates) = 2
    /\ Dates[2].source_type = "I"
    /\ IsHandle(result, Obj("orig", 2, PdfExt))

\* The renditions whose existence the call checked.
RenditionProbes ==
    {result.probes[i].obj : i \in {j \in 1..Len(result.probes) :
        /\ result.probes[j].op = "exists"
        /\ result.probes[j].obj.ext = PdfExt}}

\* The renditions on the route of the call's entry point.
RouteRenditions ==
    IF call.op = "dissemination_for_id" /\ call.id.has_version
    THEN {CacheObj(call.format, call.id.version, PdfExt),
          Obj("orig", call.id.version, PdfExt), Obj("ftp", NoSuffix, PdfExt)}
    ELSE {CacheObj(call.format, Resolved, PdfExt), Obj("ftp", NoSuffix, PdfExt)}

\* C20: a handle returned by abs_for_id, dissemination_for_id or
\* dissemination_for_id_current names an object that exists and whose
\* existence was the last thing the call checked; a condition is returned only
\* when every existence check of the call missed, and WITHDRAWN, NO_SOURCE and
\* UNAVAIABLE only after every rendition of the route was checked.
C20_HandleExists ==
    call.op \in {"abs_for_id", "dissemination_for_id",
                 "dissemination_for_id_current"}
        => /\ result.kind = "handle"
                 => /\ result.obj \in store
                    /\ result.probes # <<>>
                    /\ result.probes[Len(result.probes)]
                           = [op |-> "exists", obj |-> result.obj]
           /\ result.kind = "cond"
                 => /\ RenditionProbes \cap store = {}
                    /\ call.op = "abs_for_id"
                          => \A i \in 1..Len(result.probes) :
                                result.probes[i].obj \notin store
                    /\ result.cond \in {"WITHDRAWN", "NO_SOURCE", "UNAVAIABLE"}
                          => RenditionProbes = RouteRenditions

C20_Witness ==
    /\ call.op = "abs_for_id"
    /\ call.id = VersionedId(3)
    /\ call.version = 0
    /\ IsHandle(result, Obj("orig", 2, AbsExt))
    /\ Len(result.probes) = 2


\* A dissemination_for_id('pdf', id) call for an identifier without version
\* has returned.
UnversionedPdfCall ==
    /\ call.op = "dissemination_for_id"
    /\ call.format = "pdf"
    /\ ~call.id.has_version

\* C21: for an identifier without version dissemination_for_id('pdf', id)
\* returns a handle or one of ARTICLE_NOT_FOUND, WITHDRAWN, NO_SOURCE and
\* UNAVAIABLE, never VERSION_NOT_FOUND, and returns ARTICLE_NOT_FOUND before
\* any rendition probe whenever current_version finds no article.
C21_UnversionedOutcomes ==
    UnversionedPdfCall
        => /\ \/ result.kind = "handle"
              \/ /\ result.kind = "cond"
                 /\ result.cond \in Conditions \ {"VERSION_NOT_FOUND"}
           /\ Resolved = 0
                 => /\ IsCond(result, "ARTICLE_NOT_FOUND")
                    /\ RenditionProbes = {}

====
